---- MODULE Spec2Model ----
(***************************************************************************)
(* Model of the recursive polling scheduler of noisy_web_traffic            *)
(* (src/src/polling.rs) together with the depth rule                        *)
(* (src/src/models/polling/depth.rs) and the lazy page-URL iterator         *)
(* (src/src/crawlers/urls.rs).                                              *)
(*                                                                          *)
(* The async recursion of run_with_parent_url is an explicit call stack:    *)
(* one frame per active call, the last frame being the running call.  The   *)
(* scheduler is one task, so exactly one frame (or the main loop) moves.    *)
(*                                                                          *)
(* A URL is an integer.  What the URL validator decides about a URL is a    *)
(* property of the URL: positive URLs are admitted by the route, the        *)
(* others are rejected.  The web is memoryless: every fetch may answer      *)
(* with any response of the bounded family Responses(depth).                *)
(*                                                                          *)
(* Two parts of the configuration are examined on their own, each under a   *)
(* specification of its own while the scheduler is at rest: the polling     *)
(* time (models/polling/time.rs, config/parser.rs) under SpecTime, and the  *)
(* route with its five buckets and validate_url (models/route.rs,           *)
(* models/routes, validation/route.rs) under SpecRoute.  Strings that a     *)
(* glob pattern can match are sequences of characters.  SpecParse reads a   *)
(* route from its configuration (config/parser.rs), SpecDepth follows the   *)
(* calls by their depth alone up to u16::MAX, and SpecLive is the           *)
(* scheduler with the running call never stalled, for termination.          *)
(***************************************************************************)
EXTENDS Integers, Sequences, FiniteSets

(* ---------------------------- bounds ---------------------------------- *)

\* largest configured max_depth drawn by Init
MaxDepth == 2
\* largest number of configured root URLs drawn by Init
MaxRoots == 2
\* pages with 0..MaxSmallPage admissible links are served at every depth
MaxSmallPage == 2
\* pages with MAX_PAGE_URLS .. MAX_PAGE_URLS + MaxExcess admissible links
\* are served at the one depth richDepth
MaxExcess == 2
\* buffers of up to MaxFullShuffle URLs are shuffled into every permutation
MaxFullShuffle == 2
\* Time::new is called with sleep bounds 0, MsStep, .. , MaxSteps * MsStep
MaxSteps == 2
MsStep == 500
\* TOML integers run from -1 to MaxTomlInt
MaxTomlInt == 2
\* TOML strings have up to MaxStrLen characters
MaxStrLen == 2
\* a route is configured with up to MaxMatchers matchers, all buckets together
MaxMatchers == 2

(* ----------------------- program constants ----------------------------- *)

MAX_PAGE_URLS == 100

\* u16::MAX: the largest port and the largest depth
u16_MAX == 65535

(* ------------------------------ state ---------------------------------- *)

VARIABLES
    root_urls,   \* route.root_urls: the configured seeds, in order
    depth_rule,  \* polling.depth: [acceptable, max_depth]
    richDepth,   \* environment: the depth at which pages with many links occur
    runState,    \* position of run(): "start", "loop", "RootUrlsEmpty", "panic"
    root_url,    \* run's local root_url: the root picked last, 0 before the first
    stack,       \* active run_with_parent_url calls, outermost first
    ret,         \* result of the call that returned last, "none" once consumed
    slept,       \* a sleep has been started since run() was called
    fetched,     \* a page fetch has been started since run() was called
    time_src,    \* where the polling time comes from: constructor arguments or TOML
    time,        \* polling.time: the Time value handed to the scheduler
    time_state,  \* "idle", "config", "built", "Err", "panic", "sleeping"
    sleep,       \* the Duration being slept
    route_src,   \* the matchers the route is configured with, in the order given
    route,       \* the five buckets: of the builder, then of the Route
    route_state, \* "idle", "config", "builder", "buckets", "built"
    fed,         \* how many matchers of route_src the builder has taken
    query,       \* the last call of matches or validate_url, with its answer
    call,        \* the depth model: the innermost active call, [depth, pc]
    pass         \* history of the current root pass: the pages fetched (counted
                 \* up to MAX_PAGE_URLS * MaxDepth + 1), the
                 \* depths at which a call descended, whether two did at one,
                 \* and what the last child of the last finished loop returned

vars == <<root_urls, depth_rule, richDepth, runState, root_url, stack, ret, slept, fetched,
          time_src, time, time_state, sleep, route_src, route, route_state, fed, query,
          call, pass>>

scheduler == <<root_urls, depth_rule, richDepth, runState, root_url, stack, ret, slept, fetched,
               call, pass>>

timing == <<time_src, time, time_state, sleep>>

routing == <<route_src, route, route_state, fed, query>>

config == <<root_urls, depth_rule, richDepth, timing, routing>>

loop == <<runState, root_url>>

(* --------------------- models/polling/depth.rs -------------------------- *)

\* variant: the cap of a rule that is not acceptable still counts
max_depthIgnoringAcceptable(d) == d.max_depth

\* Depth::max_depth: the effective cap
max_depth(d) == IF d.acceptable THEN d.max_depth ELSE 0

\* variant: the cap itself still matches
matchesInclusive(d, depth) == depth <= max_depth(d)

\* Depth::matches
matches(d, depth) == depth < max_depth(d)

\* Polling::depth_matches (polling.rs) via models::polling::Polling::depth_matches
depth_matches(depth) == matches(depth_rule, depth)

(* ------------------------- crawlers/urls.rs ----------------------------- *)

\* validate_url(url, route) as used by the filter of get_page_urls
Admissible(url) == url > 0

\* CrawlerInner::get_page_urls on a DOM whose link iterator exists:
\* the hrefs in document order, filtered by the validator
get_page_urls(links) == SelectSeq(links, Admissible)

(* -------------------- environment: the responses ------------------------ *)

NoLinks == <<>>

\* a response of the crawler: a transport/parse error, a DOM without a link
\* iterator, or a DOM whose link iterator yields links
ErrResponse == [kind |-> "Err", links |-> NoLinks]
NoIterResponse == [kind |-> "NoIter", links |-> NoLinks]
NoResponse == [kind |-> "none", links |-> NoLinks]

\* a page with n admissible links 1..n in document order; a rejected link
\* stands before each of them and after the last
RawPage(n) ==
    [i \in 1..(2 * n + 1) |-> IF i % 2 = 1 THEN 0 - ((i + 1) \div 2) ELSE i \div 2]

PageSizes(depth) ==
    (0..MaxSmallPage)
    \cup (IF depth = richDepth
          THEN MAX_PAGE_URLS..(MAX_PAGE_URLS + MaxExcess)
          ELSE {})

Responses(depth) ==
    {ErrResponse, NoIterResponse, [kind |-> "Page", links |-> NoLinks]}
    \cup {[kind |-> "Page", links |-> RawPage(n)] : n \in PageSizes(depth)}

(* ----------------------------- frames ----------------------------------- *)

\* a call run_with_parent_url(url, depth) that was just issued
NewFrame(url, depth) ==
    [url |-> url, depth |-> depth, pc |-> "gate",
     resp |-> NoResponse, urls |-> <<>>, taken |-> 0, idx |-> 0]

Top == stack[Len(stack)]

Caller == SubSeq(stack, 1, Len(stack) - 1)

SetTop(f) == [stack EXCEPT ![Len(stack)] = f]

Running(pc) == runState = "loop" /\ stack # <<>> /\ Top.pc = pc

\* the running call returns r to its caller
Return(r) ==
    /\ stack' = Caller
    /\ ret' = r

\* no call is followed by its depth alone
NoCall == [depth |-> 0, pc |-> "none"]

\* the history of a root pass that has just been started
NewPass == [pages |-> 0, descended |-> {}, twice |-> FALSE, last |-> "none"]

(* ------------------- polling.rs: the pieces of code --------------------- *)

\* variant: the emptiness test inverted
RootUrlsIsEmptyInverted == Len(root_urls) # 0

\* run, line 168: root_urls.is_empty()
RootUrlsIsEmpty == Len(root_urls) = 0

\* variant: the gate lets depth = cap through
DepthGateOffByOne(depth) == depth > 0 /\ depth > max_depth(depth_rule)

\* variant: the gate is applied at depth 0 too
DepthGateAtRoot(depth) == ~depth_matches(depth)

\* run_with_parent_url, line 76: the depth gate
DepthGate(depth) == depth > 0 /\ ~depth_matches(depth)

\* variant: the loop breaks one index late
BreakAtLate(index) == index > MAX_PAGE_URLS

\* variant: the loop never breaks
BreakAtNever(index) == FALSE

\* run_with_parent_url, line 97: the collection loop breaks at this index
\* (index counts from 0, as enumerate() does)
BreakAt(index) == index >= MAX_PAGE_URLS

\* run_with_parent_url, lines 96-102: the collection loop over the lazy
\* iterator page_urls.  The loop pulls item index when the iterator has one
\* and no earlier iteration broke; it pushes the item unless it breaks on it.
\* taken is the number of items pulled out of the iterator.
CollectLoop(page_urls) ==
    LET Pulled == {index \in 0..(Len(page_urls) - 1) :
                      \A j \in 0..(index - 1) : ~BreakAt(j)}
        Pushed == {index \in Pulled : ~BreakAt(index)}
    IN  [urls |-> [i \in 1..Cardinality(Pushed) |-> page_urls[i]],
         taken |-> Cardinality(Pulled)]

\* variant: one URL is enough to descend
EnoughUrlsOne(urls) == Len(urls) > 0

\* run_with_parent_url, lines 109-129: urls_len > 1 or NoUrlsFound
EnoughUrls(urls) == Len(urls) > 1

IndexPermutations(n) ==
    {p \in [1..n -> 1..n] : \A i, j \in 1..n : p[i] = p[j] => i = j}

Reorder(urls, p) == [i \in 1..Len(urls) |-> urls[p[i]]]

\* run_with_parent_url, line 131: urls.shuffle(&mut thread_rng()).  Every
\* permutation of a short buffer; of a long one the identity and the reversal.
Shuffles(urls) ==
    LET n == Len(urls) IN
    IF n <= MaxFullShuffle
    THEN {Reorder(urls, p) : p \in IndexPermutations(n)}
    ELSE {urls, [i \in 1..n |-> urls[n + 1 - i]]}

\* run_with_parent_url, line 134: the depth of a child call
ChildDepth(depth) == depth + 1

\* variant: only the depth limit ends the sibling loop
ChildBreaksOnDepthOnly(r) == r = "DepthLimitReached"

\* variant: a child's Crawl error ends the sibling loop too
ChildBreaksOnCrawl(r) == r \in {"Ok", "DepthLimitReached", "Crawl"}

\* run_with_parent_url, lines 134-158: the results of a child that end the
\* sibling loop (let-else break on Ok, break on DepthLimitReached)
ChildBreaks(r) == r \in {"Ok", "DepthLimitReached"}

\* variant: NoUrlsFound of a root is fatal too
RootPanicsOnNoUrls(r) == r \in {"DepthLimitReached", "NoUrlsFound"}

\* run, lines 186-203: the result of a root pass that hits unreachable!()
RootPanics(r) == r = "DepthLimitReached"

\* variant: a root is fetched without a sleep
AfterGateNoRootSleep(depth) == IF depth = 0 THEN "fetching" ELSE "sleeping"

\* run_with_parent_url, lines 80-90: a call that passed the gate draws its
\* sleep and suspends on it, at every depth
AfterGate(depth) == "sleeping"

\* variant: the failed root is left out of the next draw
get_randomExcludingLast(urls) == {urls[i] : i \in DOMAIN urls} \ {root_url}

\* RootUrls::get_random (models/routes/root_urls.rs): the roots choose() may
\* return; none for an empty list
get_random(urls) == {urls[i] : i \in DOMAIN urls}

\* variant: the error of the last child is passed on
AfterLoopLastError(r) == IF r \in {"Crawl", "NoUrlsFound"} THEN r ELSE "Ok"

\* run_with_parent_url, line 161: Ok(()) after the sibling loop, whatever
\* the last child returned
AfterLoop(r) == "Ok"

\* variant: the loop stays on the URL whose call failed
AdvanceNever(idx) == idx

\* run_with_parent_url, line 133: the for loop moves on to the next URL
Advance(idx) == idx + 1

\* variant: every URL of the buffer is started at once
FirstCalls(f) ==
    [i \in 1..Len(f.urls) |-> NewFrame(f.urls[i], ChildDepth(f.depth))]

\* run_with_parent_url, lines 133-134: the call the loop head awaits: the
\* next URL of the buffer, at the child depth
NextCalls(f) == <<NewFrame(f.urls[f.idx + 1], ChildDepth(f.depth))>>

(* ------------------------------ Init ------------------------------------ *)

NoTime == [min_sleep_between_requests |-> 0, max_sleep_between_requests |-> 0,
           request_timeout |-> 0]

NoDuration == [secs |-> 0, nanos |-> 0]

NoSrc == [via |-> "none"]

Dims == {"hosts", "methods", "paths", "ports", "schemes"}

\* #[derive(Default)] of the five buckets: both lists empty
Bucket_default == [acceptable |-> <<>>, unacceptable |-> <<>>]

NoQuery == [op |-> "none"]

\* the scheduler model decides admission with Admissible and leaves the
\* buckets aside
RoutingIdle ==
    /\ route_src = <<>>
    /\ route = [d \in Dims |-> Bucket_default]
    /\ route_state = "idle"
    /\ fed = 0
    /\ query = NoQuery

\* the scheduler model leaves the polling time aside
TimingIdle ==
    /\ time_src = NoSrc
    /\ time = NoTime
    /\ time_state = "idle"
    /\ sleep = NoDuration

RootUrlLists == {[i \in 1..n |-> i] : n \in 0..MaxRoots}

DepthRules == [acceptable : BOOLEAN, max_depth : 0..MaxDepth]

Init ==
    /\ root_urls \in RootUrlLists
    /\ depth_rule \in DepthRules
    /\ richDepth \in 0..MaxDepth
    /\ runState = "start"
    /\ root_url = 0
    /\ stack = <<>>
    /\ ret = "none"
    /\ slept = FALSE
    /\ fetched = FALSE
    /\ call = NoCall
    /\ pass = NewPass
    /\ TimingIdle
    /\ RoutingIdle

(* ------------------------- polling.rs: run ------------------------------ *)

\* run, lines 178-182: the head of the main loop picks a root with
\* RootUrls::get_random and calls run_with_parent_url(root_url, 0); expect()
\* panics when get_random finds no root
PickRootAndCall ==
    IF get_random(root_urls) = {}
    THEN /\ runState' = "panic"
         /\ UNCHANGED <<root_url, stack>>
    ELSE /\ runState' = "loop"
         /\ \E u \in get_random(root_urls) :
               /\ root_url' = u
               /\ stack' = <<NewFrame(u, 0)>>

\* run, lines 165-182: the empty check, then the first iteration of the loop
Run ==
    /\ runState = "start"
    /\ IF RootUrlsIsEmpty
       THEN /\ runState' = "RootUrlsEmpty"
            /\ UNCHANGED <<root_url, stack>>
       ELSE PickRootAndCall
    /\ ret' = "none"
    /\ pass' = IF runState' = "loop" THEN NewPass ELSE pass
    /\ UNCHANGED <<config, slept, fetched, call>>

\* run, lines 182-204: a root pass has returned; its result is handled and
\* the loop goes round
RootReturned ==
    /\ runState = "loop"
    /\ stack = <<>>
    /\ ret # "none"
    /\ IF RootPanics(ret)
       THEN /\ runState' = "panic"
            /\ UNCHANGED <<root_url, stack>>
       ELSE PickRootAndCall
    /\ ret' = "none"
    /\ pass' = IF runState' = "loop" THEN NewPass ELSE pass
    /\ UNCHANGED <<config, slept, fetched, call>>

(* ------------------ polling.rs: run_with_parent_url --------------------- *)

\* lines 76-90: the depth gate, then the sleep is drawn and started
Gate ==
    /\ Running("gate")
    /\ IF DepthGate(Top.depth)
       THEN /\ Return("DepthLimitReached")
            /\ slept' = slept
       ELSE /\ stack' = SetTop([Top EXCEPT !.pc = AfterGate(Top.depth)])
            /\ ret' = ret
            /\ slept' = TRUE
    /\ UNCHANGED <<config, loop, fetched, pass, call>>

\* lines 90-94: the sleep has elapsed; crawl(url) is started
SleepDone ==
    /\ Running("sleeping")
    /\ stack' = SetTop([Top EXCEPT !.pc = "fetching"])
    /\ fetched' = TRUE
    /\ pass' = [pass EXCEPT !.pages = IF @ <= MAX_PAGE_URLS * MaxDepth
                                      THEN @ + 1 ELSE @]
    /\ UNCHANGED <<config, loop, ret, slept, call>>

\* line 94: crawl(url).await? completes with an error or with a DOM
FetchDone ==
    /\ Running("fetching")
    /\ \E r \in Responses(Top.depth) :
          IF r.kind = "Err"
          THEN Return("Crawl")
          ELSE /\ stack' = SetTop([Top EXCEPT !.pc = "extracting", !.resp = r])
               /\ ret' = ret
    /\ UNCHANGED <<config, loop, slept, fetched, pass, call>>

\* lines 94-107: get_page_urls and the collection loop.  resp and taken stay
\* in the frame until the buffer has been checked.
Extract ==
    /\ Running("extracting")
    /\ IF Top.resp.kind = "NoIter"
       THEN Return("NoUrlsFound")
       ELSE LET c == CollectLoop(get_page_urls(Top.resp.links)) IN
            /\ stack' = SetTop([Top EXCEPT !.pc = "collected",
                                           !.urls = c.urls, !.taken = c.taken])
            /\ ret' = ret
    /\ UNCHANGED <<config, loop, slept, fetched, pass, call>>

\* lines 109-131: the length check, then the shuffle
CheckAndShuffle ==
    /\ Running("collected")
    /\ IF EnoughUrls(Top.urls)
       THEN /\ \E s \in Shuffles(Top.urls) :
                 stack' = SetTop([Top EXCEPT !.pc = "iterating", !.urls = s,
                                             !.resp = NoResponse, !.taken = 0])
            /\ ret' = ret
            /\ pass' = [pass EXCEPT !.descended = @ \cup {Top.depth},
                                    !.twice = @ \/ Top.depth \in pass.descended]
       ELSE Return("NoUrlsFound") /\ pass' = pass
    /\ UNCHANGED <<config, loop, slept, fetched, call>>

\* lines 133-134 and 161: the head of the sibling loop calls the next URL of
\* the buffer, or the loop is exhausted and the call returns Ok
LoopHead ==
    IF Top.idx < Len(Top.urls)
    THEN /\ stack' = SetTop([Top EXCEPT !.pc = "awaiting", !.idx = Advance(@)])
                      \o NextCalls(Top)
         /\ ret' = "none"
    ELSE Return(AfterLoop(ret))

\* lines 131-134: the shuffled buffer enters the sibling loop
Descend ==
    /\ Running("iterating")
    /\ LoopHead
    /\ UNCHANGED <<config, loop, slept, fetched, pass, call>>

\* lines 134-161: a child call has returned; the loop breaks, or the error is
\* logged and the loop goes to its head
ChildReturned ==
    /\ Running("awaiting")
    /\ ret # "none"
    /\ IF ChildBreaks(ret)
       THEN Return(AfterLoop(ret))
       ELSE LoopHead
    /\ pass' = IF Len(stack') < Len(stack) THEN [pass EXCEPT !.last = ret] ELSE pass
    /\ UNCHANGED <<config, loop, slept, fetched, call>>

Next ==
    \/ Run
    \/ RootReturned
    \/ Gate
    \/ SleepDone
    \/ FetchDone
    \/ Extract
    \/ CheckAndShuffle
    \/ Descend
    \/ ChildReturned

Spec == Init /\ [][Next]_vars

\* the initial states whose pages with many links lie at a depth that no
\* call fetches
InitLive == Init /\ richDepth = MaxDepth

\* one step of the running call: between two awaits the body of
\* run_with_parent_url runs straight on, and an await ends when its sleep,
\* its fetch or its child does
CallStep ==
    \/ Gate
    \/ SleepDone
    \/ FetchDone
    \/ Extract
    \/ CheckAndShuffle
    \/ Descend
    \/ ChildReturned

\* the scheduler with every sleep and every fetch completing and the call
\* never stalled by the executor
SpecLive == InitLive /\ [][Next]_vars /\ WF_vars(CallStep)

(* ---------------------- models/polling/time.rs -------------------------- *)

\* Time::new: the three values are stored as given
Time_new(min, max, timeout) ==
    [min_sleep_between_requests |-> min, max_sleep_between_requests |-> max,
     request_timeout |-> timeout]

\* impl Default for Time
Time_default == Time_new(3000, 60000, 7000)

\* variant: the upper bound is passed by one
gen_rangePastMax(low, high) == low..(high + 1)

\* Rng::gen_range(low..=high): the values it can return; it panics on an
\* empty range
gen_range(low, high) == low..high

\* Time::get_random_sleep_between_requests_raw
get_random_sleep_between_requests_raw(t) ==
    gen_range(t.min_sleep_between_requests, t.max_sleep_between_requests)

\* Duration::from_millis
from_millis(ms) == [secs |-> ms \div 1000, nanos |-> (ms % 1000) * 1000000]

\* Time::get_random_sleep_between_requests
get_random_sleep_between_requests(t) ==
    {from_millis(ms) : ms \in get_random_sleep_between_requests_raw(t)}

(* ------------------ config/parser.rs: the polling time ------------------- *)

Chars == {"0", "1", "+", "x"}

Strings == UNION {[1..n -> Chars] : n \in 0..MaxStrLen}

\* a TOML value under a key of the time table, or no such key
TomlInteger(n) == [kind |-> "integer", n |-> n, s |-> <<>>]
TomlString(s) == [kind |-> "string", n |-> 0, s |-> s]
TomlBoolean == [kind |-> "boolean", n |-> 0, s |-> <<>>]
NoKey == [kind |-> "none", n |-> 0, s |-> <<>>]

TomlValues ==
    {TomlInteger(n) : n \in (0 - 1)..MaxTomlInt}
    \cup {TomlString(s) : s \in Strings}
    \cup {TomlBoolean, NoKey}

DigitOf(c) == CASE c = "0" -> 0 [] c = "1" -> 1 [] OTHER -> 0 - 1

\* str::parse::<u64>: an optional '+', then one or more decimal digits;
\* -1 stands for Err
parse_u64(s) ==
    LET digits == IF s # <<>> /\ s[1] = "+" THEN Tail(s) ELSE s
        value[i \in 0..Len(digits)] ==
            IF i = 0 THEN 0 ELSE value[i - 1] * 10 + DigitOf(digits[i])
    IN  IF digits = <<>> \/ \E i \in 1..Len(digits) : DigitOf(digits[i]) < 0
        THEN 0 - 1
        ELSE value[Len(digits)]

\* parse_polling_from_toml, lines 908-981: one key of the time table: a
\* string is parsed, an integer converted with u64::try_from(..).expect(..),
\* anything else and a missing key are errors
ParseKey(v) ==
    CASE v.kind = "string" ->
            IF parse_u64(v.s) < 0
            THEN [tag |-> "Err", val |-> 0]
            ELSE [tag |-> "Ok", val |-> parse_u64(v.s)]
      [] v.kind = "integer" ->
            IF v.n < 0
            THEN [tag |-> "panic", val |-> 0]
            ELSE [tag |-> "Ok", val |-> v.n]
      [] OTHER -> [tag |-> "Err", val |-> 0]

\* parse_polling_from_toml, lines 900-987: polling.get("time"): no key keeps
\* the builder's Time::default(); a table gives Time::new of its three keys,
\* taken in the order min, max, timeout, the first failure ending the parse
ParseTime(t) ==
    LET min == ParseKey(t.min_sleep_between_requests)
        max == ParseKey(t.max_sleep_between_requests)
        timeout == ParseKey(t.request_timeout)
    IN  CASE t.kind = "none" -> [tag |-> "Ok", time |-> Time_default]
          [] t.kind # "table" -> [tag |-> "Err", time |-> NoTime]
          [] min.tag # "Ok" -> [tag |-> min.tag, time |-> NoTime]
          [] max.tag # "Ok" -> [tag |-> max.tag, time |-> NoTime]
          [] timeout.tag # "Ok" -> [tag |-> timeout.tag, time |-> NoTime]
          [] OTHER -> [tag |-> "Ok", time |-> Time_new(min.val, max.val, timeout.val)]

\* the request_timeout keys tried: a good one and the three failures
TimeoutValues ==
    {TomlInteger(1), TomlInteger(0 - 1), TomlString(<<"x">>), NoKey}

TomlTimes ==
    [kind : {"table"}, min_sleep_between_requests : TomlValues,
     max_sleep_between_requests : TomlValues, request_timeout : TimeoutValues]
    \cup [kind : {"none", "string"}, min_sleep_between_requests : {NoKey},
          max_sleep_between_requests : {NoKey}, request_timeout : {NoKey}]

Millis == {k * MsStep : k \in 0..MaxSteps}

TimeSources ==
    {[via |-> "new", min |-> a, max |-> b, timeout |-> 1] : a, b \in Millis}
    \cup {[via |-> "toml", toml |-> t] : t \in TomlTimes}

\* the scheduler at rest, while the polling time is examined on its own
SchedulerIdle ==
    /\ root_urls = <<>>
    /\ depth_rule = [acceptable |-> TRUE, max_depth |-> 0]
    /\ richDepth = 0
    /\ runState = "start"
    /\ root_url = 0
    /\ stack = <<>>
    /\ ret = "none"
    /\ slept = FALSE
    /\ fetched = FALSE
    /\ call = NoCall
    /\ pass = NewPass

InitTime ==
    /\ SchedulerIdle
    /\ RoutingIdle
    /\ time_src \in TimeSources
    /\ time = NoTime
    /\ time_state = "config"
    /\ sleep = NoDuration

\* the embedding program builds the polling time with Time::new
BuildWithNew ==
    /\ time_state = "config"
    /\ time_src.via = "new"
    /\ time' = Time_new(time_src.min, time_src.max, time_src.timeout)
    /\ time_state' = "built"
    /\ UNCHANGED <<scheduler, routing, time_src, sleep>>

\* parse_polling_from_toml builds the polling time, fails or panics
BuildFromToml ==
    /\ time_state = "config"
    /\ time_src.via = "toml"
    /\ LET r == ParseTime(time_src.toml) IN
         /\ time' = r.time
         /\ time_state' = IF r.tag = "Ok" THEN "built" ELSE r.tag
    /\ UNCHANGED <<scheduler, routing, time_src, sleep>>

\* run_with_parent_url, lines 82-90: the scheduler draws a sleep from the
\* polling time; gen_range panics when it has nothing to draw from
DrawSleep ==
    /\ time_state = "built"
    /\ IF get_random_sleep_between_requests(time) = {}
       THEN /\ time_state' = "panic"
            /\ sleep' = sleep
       ELSE /\ time_state' = "sleeping"
            /\ sleep' \in get_random_sleep_between_requests(time)
    /\ UNCHANGED <<scheduler, routing, time_src, time>>

\* run_with_parent_url, line 90: sleep(sleep).await has elapsed; the
\* Duration is dropped and the next call draws again
SleepElapsed ==
    /\ time_state = "sleeping"
    /\ time_state' = "built"
    /\ sleep' = NoDuration
    /\ UNCHANGED <<scheduler, routing, time_src, time>>

NextTime ==
    \/ BuildWithNew
    \/ BuildFromToml
    \/ DrawSleep
    \/ SleepElapsed

SpecTime == InitTime /\ [][NextTime]_vars

(* ------------------- models/routes: the matcher kinds -------------------- *)

\* glob::Pattern::matches with the default options: '?' is any one
\* character, '*' any run of characters, every other character itself
RECURSIVE glob_matches(_, _)
glob_matches(pattern, str) ==
    IF pattern = <<>> THEN str = <<>>
    ELSE IF Head(pattern) = "*"
         THEN \E k \in 0..Len(str) :
                 glob_matches(Tail(pattern), SubSeq(str, k + 1, Len(str)))
         ELSE /\ str # <<>>
              /\ Head(pattern) = "?" \/ Head(pattern) = Head(str)
              /\ glob_matches(Tail(pattern), Tail(str))

\* char::to_lowercase on the letters that occur in hosts
LowerChar(c) == IF c = "A" THEN "a" ELSE IF c = "W" THEN "w" ELSE c

\* url::Host::parse of a domain followed by Host::to_string: the domain in
\* lower case
Host_parse(host) == [i \in 1..Len(host) |-> LowerChar(host[i])]

\* str::to_lowercase on scheme and method names
to_lowercase(str) ==
    CASE str = "HTTP" -> "http" [] str = "HtTP" -> "http"
      [] str = "HTTPS" -> "https" [] str = "FTP" -> "ftp"
      [] str = "GET" -> "get" [] str = "Post" -> "post"
      [] OTHER -> str

\* u16::to_string: the decimal digits
RECURSIVE to_string(_)
to_string(n) ==
    LET digit == <<"0", "1", "2", "3", "4", "5", "6", "7", "8", "9">>[(n % 10) + 1]
    IN  IF n < 10 THEN <<digit>> ELSE Append(to_string(n \div 10), digit)

\* the constructors of the kinds: Kind::glob, Kind::exact and the unit kinds
Glob(pattern) == [tag |-> "Glob", arg |-> pattern, port |-> 0]
Exact(arg) == [tag |-> "Exact", arg |-> arg, port |-> 0]
ExactPort(port) == [tag |-> "Exact", arg |-> <<>>, port |-> port]
Unit(tag) == [tag |-> tag, arg |-> <<>>, port |-> 0]

\* host::Kind::matches
host_matches(kind, host) ==
    CASE kind.tag = "Glob" -> glob_matches(kind.arg, host)
      [] kind.tag = "Exact" -> kind.arg = host
      [] kind.tag = "Any" -> TRUE

\* variant: AnySupported matches every scheme
scheme_matchesAnyScheme(kind, scheme) ==
    LET lower == to_lowercase(scheme) IN
    CASE kind.tag = "Http" -> lower = "http"
      [] kind.tag = "Https" -> lower = "https"
      [] kind.tag = "AnySupported" -> TRUE

\* scheme::Kind::matches
scheme_matches(kind, scheme) ==
    LET lower == to_lowercase(scheme) IN
    CASE kind.tag = "Http" -> lower = "http"
      [] kind.tag = "Https" -> lower = "https"
      [] kind.tag = "AnySupported" -> lower = "http" \/ lower = "https"

\* port::Kind::matches
port_matches(kind, port) ==
    CASE kind.tag = "Glob" -> glob_matches(kind.arg, to_string(port))
      [] kind.tag = "Exact" -> kind.port = port
      [] kind.tag = "Any" -> TRUE

\* variant: the input is matched as it is
path_matchesNoStrip(kind, path) ==
    CASE kind.tag = "Glob" -> glob_matches(kind.arg, path)
      [] kind.tag = "Exact" -> kind.arg = path
      [] kind.tag = "Any" -> TRUE

\* variant: the port is compared with the pattern text
port_matches_strByPattern(kind, str) ==
    CASE kind.tag = "Glob" -> glob_matches(kind.arg, str)
      [] kind.tag = "Exact" -> kind.arg = str
      [] kind.tag = "Any" -> TRUE

\* port::Kind::matches_str
port_matches_str(kind, str) ==
    CASE kind.tag = "Glob" -> glob_matches(kind.arg, str)
      [] kind.tag = "Exact" -> to_string(kind.port) = str
      [] kind.tag = "Any" -> TRUE

\* path::Kind::matches: one trailing '/' is stripped, except from "/"
path_matches(kind, path) ==
    LET stripped == IF path # <<"/">> /\ path # <<>> /\ path[Len(path)] = "/"
                    THEN SubSeq(path, 1, Len(path) - 1)
                    ELSE path
    IN  CASE kind.tag = "Glob" -> glob_matches(kind.arg, stripped)
          [] kind.tag = "Exact" -> kind.arg = stripped
          [] kind.tag = "Any" -> TRUE

\* method::Kind::matches
method_matches(kind, method) ==
    LET lower == to_lowercase(method) IN
    CASE kind.tag = "Get" -> lower = "get"
      [] kind.tag = "Post" -> lower = "post"
      [] kind.tag = "Put" -> lower = "put"
      [] kind.tag = "AnySupported" ->
            lower \in {"get", "post", "put", "patch", "delete", "head", "options"}

\* Kind::matches of the dimension's kind
kind_matches(dim, kind, input) ==
    CASE dim = "hosts" -> host_matches(kind, input)
      [] dim = "schemes" -> scheme_matches(kind, input)
      [] dim = "ports" -> port_matches(kind, input)
      [] dim = "paths" -> path_matches(kind, input)
      [] dim = "methods" -> method_matches(kind, input)

(* --------------------- models/routes: the buckets ------------------------ *)

\* the kind a constructor seeds an empty acceptable list with
SeedKind(dim) ==
    IF dim \in {"schemes", "methods"} THEN Unit("AnySupported") ELSE Unit("Any")

\* the kinds of the matchers of one permission, in the order given
KindsOf(matchers, permission) ==
    LET chosen == SelectSeq(matchers, LAMBDA m : m.permission = permission)
    IN  [i \in 1..Len(chosen) |-> chosen[i].kind]

\* Hosts::extend, and the same code in Schemes, Ports, Paths and Methods:
\* each matcher is pushed onto the list of its permission
bucket_extend(bucket, matchers) ==
    [acceptable |-> bucket.acceptable \o KindsOf(matchers, "Acceptable"),
     unacceptable |-> bucket.unacceptable \o KindsOf(matchers, "Unacceptable")]

\* variant: an empty acceptable list is left empty
SeedNothing(dim, bucket) == bucket

\* Hosts::new lines 27-29 and Route::new lines 30-48: an empty acceptable
\* list gets the dimension's Any
Seed(dim, bucket) ==
    IF bucket.acceptable = <<>>
    THEN [bucket EXCEPT !.acceptable = <<SeedKind(dim)>>]
    ELSE bucket

\* Hosts::new, and the same code in Schemes, Ports, Paths and Methods
bucket_new(dim, matchers) == Seed(dim, bucket_extend(Bucket_default, matchers))

\* Route::new: every bucket with an empty acceptable list is seeded
Route_new(buckets) == [d \in Dims |-> Seed(d, buckets[d])]

any(kinds, dim, input) == \E i \in 1..Len(kinds) : kind_matches(dim, kinds[i], input)

\* variant: the first matcher that matches decides
bucket_matchesAcceptFirst(dim, bucket, input) == any(bucket.acceptable, dim, input)

\* Hosts::matches, and the same code in Schemes, Ports, Paths and Methods
bucket_matches(dim, bucket, input) ==
    IF ~any(bucket.acceptable, dim, input)
    THEN FALSE
    ELSE ~any(bucket.unacceptable, dim, input)

\* Ports::matches_str
ports_matches_str(bucket, str) ==
    IF ~\E i \in 1..Len(bucket.acceptable) : port_matches_str(bucket.acceptable[i], str)
    THEN FALSE
    ELSE ~\E i \in 1..Len(bucket.unacceptable) : port_matches_str(bucket.unacceptable[i], str)

(* ------------------------ validation/route.rs ---------------------------- *)

NoHost == <<>>

NoPort == 0 - 1

\* variant: only an explicit port counts
port_or_known_defaultExplicit(url) == url.port

\* Url::port_or_known_default: the explicit port, else the default port of
\* a scheme that has one
port_or_known_default(url) ==
    IF url.port # NoPort THEN url.port
    ELSE CASE url.scheme = "http" -> 80
           [] url.scheme = "https" -> 443
           [] url.scheme = "ftp" -> 21
           [] OTHER -> NoPort

\* variant: the path bucket is not asked
validate_urlNoPath(url, r) ==
    IF url.host = NoHost THEN FALSE
    ELSE IF port_or_known_default(url) = NoPort THEN FALSE
    ELSE /\ bucket_matches("schemes", r["schemes"], url.scheme)
         /\ bucket_matches("hosts", r["hosts"], url.host)
         /\ bucket_matches("ports", r["ports"], port_or_known_default(url))

\* validate_url
validate_url(url, r) ==
    IF url.host = NoHost THEN FALSE
    ELSE IF port_or_known_default(url) = NoPort THEN FALSE
    ELSE /\ bucket_matches("schemes", r["schemes"], url.scheme)
         /\ bucket_matches("hosts", r["hosts"], url.host)
         /\ bucket_matches("ports", r["ports"], port_or_known_default(url))
         /\ bucket_matches("paths", r["paths"], url.path)

(* ------------------- the routes and URLs that are tried ------------------ *)

Kinds(dim) ==
    CASE dim = "hosts" ->
            {Exact(Host_parse(<<"A">>)), Glob(<<"*", ".", "a">>), Unit("Any")}
      [] dim = "schemes" -> {Unit("Http"), Unit("Https"), Unit("AnySupported")}
      [] dim = "ports" ->
            {ExactPort(0), ExactPort(80), ExactPort(u16_MAX),
             Glob(<<"8", "0", "*">>), Unit("Any")}
      [] dim = "paths" ->
            {Exact(<<"/", "x">>), Exact(<<"/", "x", "/">>),
             Glob(<<"/", "x", "/", "*">>), Unit("Any")}
      [] dim = "methods" -> {Unit("Get"), Unit("Post"), Unit("AnySupported")}

\* host::Matcher::new and its four siblings, tagged with their dimension
Matchers ==
    UNION {[dim : {d}, permission : {"Acceptable", "Unacceptable"}, kind : Kinds(d)] :
              d \in Dims}

MatcherLists == UNION {[1..n -> Matchers] : n \in 0..MaxMatchers}

\* the matchers of route_src meant for one bucket
MatchersOf(dim, matchers) == SelectSeq(matchers, LAMBDA m : m.dim = dim)

UrlHosts == {<<"a">>, <<"w", ".", "a">>}

UrlPaths == {<<"/">>, <<"/", "x">>, <<"/", "x", "/">>, <<"/", "x", "/", "y">>}

\* the inputs given to matches, bucket by bucket
Inputs(dim) ==
    CASE dim = "hosts" -> UrlHosts \cup {<<"b">>}
      [] dim = "schemes" -> {"http", "HtTP", "https", "ftp", "test"}
      [] dim = "ports" -> {0, 80, 8080, 443, u16_MAX}
      [] dim = "paths" -> UrlPaths
      [] dim = "methods" -> {"get", "GET", "Post", "trace"}

\* what Url::parse can return: a URL of a special scheme has a host and
\* keeps no port equal to its default; another URL may have neither host
\* nor port
Urls ==
    {u \in [scheme : {"http", "https", "ftp"}, host : UrlHosts,
            port : {NoPort, 80, 8080}, path : UrlPaths] :
        u.port = NoPort \/ u.port # port_or_known_default([u EXCEPT !.port = NoPort])}
    \cup [scheme : {"test"}, host : UrlHosts, port : {NoPort, 80}, path : UrlPaths]
    \cup [scheme : {"unix", "test"}, host : {NoHost}, port : {NoPort},
          path : {<<"/", "x">>}]

NoUrl == [scheme |-> "", host |-> NoHost, port |-> NoPort, path |-> <<>>]

InitRoute ==
    /\ SchedulerIdle
    /\ TimingIdle
    /\ route_src \in MatcherLists
    /\ route = [d \in Dims |-> Bucket_default]
    /\ route_state = "config"
    /\ fed = 0
    /\ query = NoQuery

\* Hosts::new(..), Schemes::new(..), Ports::new(..), Paths::new(..) and
\* Methods::new(..), each on its matchers
BucketsNew ==
    /\ route_state = "config"
    /\ route' = [d \in Dims |-> bucket_new(d, MatchersOf(d, route_src))]
    /\ route_state' = "buckets"
    /\ fed' = Len(route_src)
    /\ UNCHANGED <<scheduler, timing, route_src, query>>

\* Route::new on buckets made by new()
RouteNew ==
    /\ route_state = "buckets"
    /\ route' = Route_new(route)
    /\ route_state' = "built"
    /\ UNCHANGED <<scheduler, timing, route_src, fed, query>>

\* Builder::host, ::method, ::path, ::port, ::scheme: the next matcher
\* extends its bucket of the builder
BuilderAdd ==
    /\ route_state \in {"config", "builder"}
    /\ fed < Len(route_src)
    /\ LET m == route_src[fed + 1] IN
         route' = [route EXCEPT ![m.dim] = bucket_extend(@, <<m>>)]
    /\ fed' = fed + 1
    /\ route_state' = "builder"
    /\ UNCHANGED <<scheduler, timing, route_src, query>>

\* Builder::build, once every matcher is in
BuilderBuild ==
    /\ route_state \in {"config", "builder"}
    /\ fed = Len(route_src)
    /\ route' = Route_new(route)
    /\ route_state' = "built"
    /\ UNCHANGED <<scheduler, timing, route_src, fed, query>>

\* Route::default(), for a route with no matchers
RouteDefault ==
    /\ route_state = "config"
    /\ route_src = <<>>
    /\ route' = Route_new([d \in Dims |-> Bucket_default])
    /\ route_state' = "built"
    /\ UNCHANGED <<scheduler, timing, route_src, fed, query>>

\* a bucket is asked about an input: Route::host_matches and its siblings,
\* or matches on a bucket made by new()
BucketMatches ==
    /\ route_state \in {"buckets", "built"}
    /\ query = NoQuery
    /\ \E d \in Dims : \E x \in Inputs(d) :
          query' = [op |-> "matches", dim |-> d, input |-> x, url |-> NoUrl,
                    answer |-> bucket_matches(d, route[d], x)]
    /\ UNCHANGED <<scheduler, timing, route_src, route, route_state, fed>>

\* Route::port_matches_str on the decimal string of a port
PortMatchesStr ==
    /\ route_state \in {"buckets", "built"}
    /\ query = NoQuery
    /\ \E p \in Inputs("ports") :
          query' = [op |-> "matches_str", dim |-> "ports", input |-> p, url |-> NoUrl,
                    answer |-> ports_matches_str(route["ports"], to_string(p))]
    /\ UNCHANGED <<scheduler, timing, route_src, route, route_state, fed>>

\* validate_url(url, route) is called, as the filter of get_page_urls does
ValidateUrl ==
    /\ route_state = "built"
    /\ query = NoQuery
    /\ \E u \in Urls :
          query' = [op |-> "validate_url", dim |-> "", input |-> <<>>, url |-> u,
                    answer |-> validate_url(u, route)]
    /\ UNCHANGED <<scheduler, timing, route_src, route, route_state, fed>>

\* the caller has taken the answer; the route can be asked again
Answered ==
    /\ query # NoQuery
    /\ query' = NoQuery
    /\ UNCHANGED <<scheduler, timing, route_src, route, route_state, fed>>

NextRoute ==
    \/ BucketsNew
    \/ RouteNew
    \/ BuilderAdd
    \/ BuilderBuild
    \/ RouteDefault
    \/ BucketMatches
    \/ PortMatchesStr
    \/ ValidateUrl
    \/ Answered

SpecRoute == InitRoute /\ [][NextRoute]_vars

(* ------------------ config/parser.rs: the route -------------------------- *)

\* glob::Pattern::new: the patterns tried are the valid ones and those with
\* a '[' that is never closed, which are errors
Pattern_valid(pattern) == \A i \in 1..Len(pattern) : pattern[i] # "["

\* url::Host::parse: an empty host and a host with a space are errors
Host_valid(host) == host # <<>> /\ \A i \in 1..Len(host) : host[i] # " "

\* TryFrom<String> for scheme::Kind: http and https, in any case
scheme_try_from(value) ==
    LET lower == [i \in 1..Len(value) |-> LowerChar(value[i])] IN
    IF lower = <<"h", "t", "t", "p">> THEN "Http"
    ELSE IF lower = <<"h", "t", "t", "p", "s">> THEN "Https"
    ELSE "Err"

\* str::parse::<u16>, as port::Kind::exact_str uses it; -1 stands for Err
parse_u16(str) ==
    IF parse_u64(str) > u16_MAX THEN 0 - 1 ELSE parse_u64(str)

\* variant: the integer is cut down to 16 bits
port_from_integerWrapping(n) == [tag |-> "Ok", kind |-> ExactPort(n % (u16_MAX + 1))]

\* line 461: port::Kind::exact(u16::try_from(port).expect(..))
port_from_integer(n) ==
    IF n < 0 \/ n > u16_MAX
    THEN [tag |-> "panic", kind |-> Unit("none")]
    ELSE [tag |-> "Ok", kind |-> ExactPort(n)]

\* one table of an acceptable or unacceptable array: the key it has (glob
\* before exact, as the parser looks for them) and the value under it
RawEntry(dim, permission, key, value) ==
    [dim |-> dim, permission |-> permission, key |-> key, value |-> value]

\* parse_route_from_toml, the body of the loop over one array: the entry
\* becomes a matcher kind, is skipped, is an error or panics
ParseEntry(e) ==
    LET v == e.value
        ok(kind) == [tag |-> "Ok", kind |-> kind]
        err == [tag |-> "Err", kind |-> Unit("none")]
        skip == [tag |-> "Skip", kind |-> Unit("none")]
    IN  CASE e.key = "none" -> skip
          [] e.key = "glob" /\ e.dim = "schemes" -> skip
          [] e.key = "glob" ->
                IF v.kind # "string" THEN err
                ELSE IF Pattern_valid(v.s) THEN ok(Glob(v.s)) ELSE err
          [] e.key = "exact" /\ e.dim = "hosts" ->
                IF v.kind # "string" THEN err
                ELSE IF Host_valid(v.s) THEN ok(Exact(Host_parse(v.s))) ELSE err
          [] e.key = "exact" /\ e.dim = "schemes" ->
                IF v.kind # "string" THEN err
                ELSE IF scheme_try_from(v.s) = "Err" THEN err
                ELSE ok(Unit(scheme_try_from(v.s)))
          [] e.key = "exact" /\ e.dim = "ports" ->
                IF v.kind = "string"
                THEN IF parse_u16(v.s) < 0 THEN err ELSE ok(ExactPort(parse_u16(v.s)))
                ELSE IF v.kind = "integer" THEN port_from_integer(v.n)
                ELSE err
          [] e.key = "exact" /\ e.dim = "paths" ->
                IF v.kind # "string" THEN err ELSE ok(Exact(v.s))

\* parse_route_from_toml: the entries are taken in order; the first error or
\* panic ends the parse, otherwise the builder that got every matcher builds
\* the Route
parse_route_from_toml(entries) ==
    LET bad == {i \in 1..Len(entries) : ParseEntry(entries[i]).tag \in {"Err", "panic"}}
        first == CHOOSE i \in bad : \A j \in bad : i <= j
        kept == SelectSeq(entries, LAMBDA e : ParseEntry(e).tag = "Ok")
        matchers == [i \in 1..Len(kept) |->
                        [dim |-> kept[i].dim, permission |-> kept[i].permission,
                         kind |-> ParseEntry(kept[i]).kind]]
    IN  IF bad # {}
        THEN [tag |-> ParseEntry(entries[first]).tag,
              route |-> [d \in Dims |-> Bucket_default]]
        ELSE [tag |-> "built",
              route |-> Route_new([d \in Dims |->
                           bucket_extend(Bucket_default, MatchersOf(d, matchers))])]

\* the values tried under a key
RawValues(dim, key) ==
    CASE key = "none" -> {NoKey}
      [] key = "glob" ->
            {TomlString(<<"1", "*">>), TomlString(<<"[", "1">>), TomlInteger(1)}
      [] dim = "hosts" ->
            {TomlString(<<"A">>), TomlString(<<"a", " ">>), TomlBoolean}
      [] dim = "schemes" ->
            {TomlString(<<"h", "t", "t", "p">>), TomlString(<<"f", "t", "p">>), TomlInteger(1)}
      [] dim = "ports" ->
            {TomlString(<<"1", "0">>), TomlString(<<"1", "0", "0", "0", "0", "0">>),
             TomlString(<<"x">>), TomlInteger(0), TomlInteger(u16_MAX),
             TomlInteger(u16_MAX + 1), TomlInteger(0 - 1), TomlBoolean}
      [] dim = "paths" -> {TomlString(<<"/", "x", "/">>), TomlInteger(1)}

RawEntries ==
    UNION {{RawEntry(d, p, k, v) : v \in RawValues(d, k)} :
              d \in Dims \ {"methods"}, p \in {"Acceptable", "Unacceptable"},
              k \in {"glob", "exact", "none"}}

\* the place of an entry in the order in which the parser visits the arrays
VisitRank(e) ==
    2 * (CASE e.dim = "hosts" -> 0 [] e.dim = "schemes" -> 1
           [] e.dim = "ports" -> 2 [] e.dim = "paths" -> 3)
    + (IF e.permission = "Acceptable" THEN 0 ELSE 1)

RawConfigs ==
    {c \in UNION {[1..n -> RawEntries] : n \in 0..MaxMatchers} :
        \A i \in 1..(Len(c) - 1) : VisitRank(c[i]) <= VisitRank(c[i + 1])}

InitParse ==
    /\ SchedulerIdle
    /\ TimingIdle
    /\ route_src \in RawConfigs
    /\ route = [d \in Dims |-> Bucket_default]
    /\ route_state = "config"
    /\ fed = 0
    /\ query = NoQuery

\* parse_route_from_toml is called on the configuration
ParseRouteFromToml ==
    /\ route_state = "config"
    /\ route_state' = parse_route_from_toml(route_src).tag
    /\ route' = parse_route_from_toml(route_src).route
    /\ fed' = Len(route_src)
    /\ UNCHANGED <<scheduler, timing, route_src, query>>

NextParse == ParseRouteFromToml

SpecParse == InitParse /\ [][NextParse]_vars

(* ------------------ the depth of the calls, on its own ------------------ *)

\* Depth::new with a cap near 0 or near u16::MAX
WideDepthRules ==
    [acceptable : BOOLEAN,
     max_depth : (0..MaxDepth) \cup ((u16_MAX - MaxDepth)..u16_MAX)]

\* the depths that Depth::matches is asked about
DepthInputs == (0..(MaxDepth + 1)) \cup ((u16_MAX - MaxDepth - 1)..u16_MAX)

InitDepth ==
    /\ root_urls = <<>>
    /\ depth_rule \in WideDepthRules
    /\ richDepth = 0
    /\ runState = "start"
    /\ root_url = 0
    /\ stack = <<>>
    /\ ret = "none"
    /\ slept = FALSE
    /\ fetched = FALSE
    /\ call = NoCall
    /\ pass = NewPass
    /\ TimingIdle
    /\ RoutingIdle

\* Depth::matches(depth) is called on the configured rule
DepthMatches ==
    /\ call = NoCall
    /\ query = NoQuery
    /\ \E depth \in DepthInputs :
          query' = [op |-> "depth_matches", input |-> depth,
                    answer |-> matches(depth_rule, depth)]
    /\ UNCHANGED <<scheduler, timing, route_src, route, route_state, fed>>

\* run, line 182: run_with_parent_url(root_url, 0)
CallRoot ==
    /\ call = NoCall
    /\ query = NoQuery
    /\ call' = [depth |-> 0, pc |-> "gate"]
    /\ UNCHANGED <<root_urls, depth_rule, richDepth, loop, stack, ret, slept,
                   fetched, pass, timing, routing>>

\* run_with_parent_url, lines 76-131: the call returns DepthLimitReached at
\* the gate, or Crawl or NoUrlsFound after it, or reaches its sibling loop
PassGate ==
    /\ call.pc = "gate"
    /\ IF DepthGate(call.depth)
       THEN call' = [call EXCEPT !.pc = "DepthLimitReached"]
       ELSE \E pc \in {"Crawl", "NoUrlsFound", "loop"} :
               call' = [call EXCEPT !.pc = pc]
    /\ UNCHANGED <<root_urls, depth_rule, richDepth, loop, stack, ret, slept,
                   fetched, pass, timing, routing>>

\* run_with_parent_url, line 134: the child is called at depth + 1, a u16
\* addition
CallChild ==
    /\ call.pc = "loop"
    /\ call' = IF ChildDepth(call.depth) > u16_MAX
               THEN [call EXCEPT !.pc = "overflow"]
               ELSE [depth |-> ChildDepth(call.depth), pc |-> "gate"]
    /\ UNCHANGED <<root_urls, depth_rule, richDepth, loop, stack, ret, slept,
                   fetched, pass, timing, routing>>

NextDepth ==
    \/ DepthMatches
    \/ Answered
    \/ CallRoot
    \/ PassGate
    \/ CallChild

SpecDepth == InitDepth /\ [][NextDepth]_vars

(* --------------------- vocabulary of the properties --------------------- *)

\* the effective depth cap, read off the configuration
Cap == IF depth_rule.acceptable THEN depth_rule.max_depth ELSE 0

Min2(a, b) == IF a <= b THEN a ELSE b

Max2(a, b) == IF a >= b THEN a ELSE b

\* the admissible links of a page, in document order
AdmissibleOf(links) == SelectSeq(links, LAMBDA u : u > 0)

\* the running call returns r in this step
Returns(r) == stack' = Caller /\ ret' = r

\* the running call stays on the stack and moves to pc
MovesTo(pc) == Len(stack') = Len(stack) /\ stack'[Len(stack)].pc = pc

\* frame i has fetched its page (or is fetching it)
HasFetched(f) == f.pc \in {"fetching", "extracting", "collected", "iterating", "awaiting"}

(* ------------------------------- C1 ------------------------------------- *)

\* C1: run() on an empty root_urls list ends in Err(RootUrlsEmpty), with no
\* call on the stack, no sleep started and no page fetched.
C1_EmptyRootsReturnError ==
    (root_urls = <<>> /\ runState # "start")
        => (runState = "RootUrlsEmpty" /\ stack = <<>> /\ ~slept /\ ~fetched)

C1_Witness == root_urls = <<>> /\ runState = "RootUrlsEmpty"

(* ------------------------------- C2 ------------------------------------- *)

\* C2: with a non-empty root_urls list run() never leaves its loop: it is
\* never in a returned or panicked state, it can always take a step, and
\* the step after a root pass has ended (Ok, Crawl or NoUrlsFound) starts a
\* new pass: one call, at depth 0, on a URL of root_urls.
C2_LoopNeverEnds ==
    /\ [](root_urls # <<>> => (runState \in {"start", "loop"} /\ ENABLED Next))
    /\ [][(root_urls # <<>> /\ runState = "loop" /\ stack = <<>>
              /\ ret \in {"Ok", "Crawl", "NoUrlsFound"})
           => (/\ runState' = "loop"
               /\ Len(stack') = 1
               /\ stack'[1].depth = 0
               /\ stack'[1].pc = "gate"
               /\ \E i \in 1..Len(root_urls) : stack'[1].url = root_urls[i])]_vars

C2_Witness ==
    runState = "loop" /\ stack = <<>> /\ ret = "Crawl" /\ slept /\ fetched

(* ------------------------------- C3 ------------------------------------- *)

\* C3: when a child call has returned Ok, the parent's next step is to
\* return Ok itself: no later URL of its buffer is ever called.
C3_FirstOkEndsSiblings ==
    [][(Running("awaiting") /\ ret = "Ok")
       => (Returns("Ok") /\ slept' = slept /\ fetched' = fetched)]_vars

\* a child returned Ok while siblings were still waiting in the buffer
C3_Witness ==
    Running("awaiting") /\ ret = "Ok" /\ Top.idx < Len(Top.urls)

(* ------------------------------- C4 ------------------------------------- *)

\* C4: a call at depth > 0 with depth >= effective cap returns
\* DepthLimitReached in its first step, starting no sleep and no fetch; a
\* call at depth 0 is never gated: it starts its sleep and then its fetch,
\* whatever the cap.
C4_DepthGate ==
    [][/\ (Running("gate") /\ Top.depth > 0 /\ Top.depth >= Cap)
          => (Returns("DepthLimitReached") /\ slept' = slept /\ fetched' = fetched)
       /\ (Running("gate") /\ Top.depth = 0) => MovesTo("sleeping")
       /\ (Running("sleeping") /\ Top.depth = 0) => MovesTo("fetching")]_vars

\* with cap 0 the root was fetched and its first child was gated
C4_Witness ==
    /\ Cap = 0
    /\ Running("awaiting")
    /\ Top.depth = 0
    /\ ret = "DepthLimitReached"

(* ------------------------------- C5 ------------------------------------- *)

\* C5: every call that fetches has depth 0 or a depth below the effective
\* cap, and no call is ever issued at a depth above max(cap, 1).
C5_FetchDepthBounded ==
    \A i \in DOMAIN stack :
        /\ stack[i].depth <= Max2(Cap, 1)
        /\ HasFetched(stack[i]) => (stack[i].depth = 0 \/ stack[i].depth < Cap)

\* a call below the root has fetched and its child sits at the cap
C5_Witness ==
    /\ Len(stack) = 3
    /\ stack[2].pc = "awaiting"
    /\ stack[3].depth = Cap

(* ------------------------------- C6 ------------------------------------- *)

\* C6: a root pass never returns DepthLimitReached, so run() never reaches
\* its unreachable!() branch.
C6_RootNeverDepthLimited ==
    /\ runState # "panic"
    /\ stack = <<>> => ret # "DepthLimitReached"

\* a child handed DepthLimitReached to the root call
C6_Witness ==
    /\ Len(stack) = 1
    /\ Top.pc = "awaiting"
    /\ ret = "DepthLimitReached"

(* ------------------------------- C7 ------------------------------------- *)

\* C7: the sibling loop starts with the first URL of the shuffled buffer;
\* after a child's Crawl or NoUrlsFound the parent keeps its buffer and calls
\* the next URL of it, in buffer order, at depth + 1, or returns Ok when the
\* buffer is exhausted; only a child's Ok or DepthLimitReached ends the loop
\* early.
C7_ErrorsContinueSiblings ==
    [][/\ (Running("awaiting") /\ ret \in {"Crawl", "NoUrlsFound"}
              /\ Top.idx < Len(Top.urls))
          => (/\ Len(stack') = Len(stack) + 1
              /\ stack'[Len(stack)] = [Top EXCEPT !.idx = Top.idx + 1]
              /\ stack'[Len(stack')].url = Top.urls[Top.idx + 1]
              /\ stack'[Len(stack')].depth = Top.depth + 1
              /\ stack'[Len(stack')].pc = "gate")
       /\ (Running("awaiting") /\ ret \in {"Crawl", "NoUrlsFound"}
              /\ Top.idx = Len(Top.urls))
          => Returns("Ok")
       /\ (Running("awaiting") /\ ret \in {"Ok", "DepthLimitReached"})
          => Returns("Ok")
       /\ (Running("iterating"))
          => (/\ Top.idx = 0
              /\ Len(stack') = Len(stack) + 1
              /\ stack'[Len(stack')].url = Top.urls[1])]_vars

\* the second sibling of a buffer has failed after the first one did
C7_Witness ==
    Running("awaiting") /\ ret = "Crawl" /\ Top.idx = 2 /\ Len(Top.urls) > 2

(* ------------------------------- C8 ------------------------------------- *)

\* C8: a page without a link iterator, or with fewer than two admissible
\* links, makes the call return NoUrlsFound; a page with at least two makes
\* it go on to the sibling loop; every call in its sibling loop holds at
\* least two URLs.
C8_FewerThanTwoIsNoUrlsFound ==
    [][/\ (Running("extracting") /\ Top.resp.kind = "NoIter")
          => Returns("NoUrlsFound")
       /\ (Running("collected") /\ Len(AdmissibleOf(Top.resp.links)) < 2)
          => Returns("NoUrlsFound")
       /\ (Running("collected") /\ Len(AdmissibleOf(Top.resp.links)) >= 2)
          => MovesTo("iterating")
       /\ \A i \in DOMAIN stack' :
             stack'[i].pc \in {"iterating", "awaiting"} => Len(stack'[i].urls) >= 2]_vars

\* a page with exactly one admissible link among rejected ones
C8_Witness ==
    /\ Running("collected")
    /\ Len(Top.urls) = 1
    /\ Len(Top.resp.links) > 1

(* ------------------------------- C9 ------------------------------------- *)

\* C9: the buffer collected from a page is the first MAX_PAGE_URLS
\* admissible links of the page (all of them when there are fewer), in
\* document order; no buffer is longer than MAX_PAGE_URLS and no call calls
\* more children than its buffer holds.
C9_BufferAtMostMaxPageUrls ==
    [][/\ (Running("extracting") /\ Top.resp.kind = "Page")
          => LET a == AdmissibleOf(Top.resp.links) IN
             /\ MovesTo("collected")
             /\ stack'[Len(stack)].urls = SubSeq(a, 1, Min2(Len(a), MAX_PAGE_URLS))
       /\ \A i \in DOMAIN stack' :
             /\ Len(stack'[i].urls) <= MAX_PAGE_URLS
             /\ stack'[i].idx <= Len(stack'[i].urls)]_vars

\* all MAX_PAGE_URLS children of one page have been called
C9_Witness ==
    Running("awaiting") /\ Top.idx = MAX_PAGE_URLS /\ ret = "NoUrlsFound"

(* ------------------------------- C10 ------------------------------------ *)

\* C10 as stated: the collection loop never takes more than MAX_PAGE_URLS
\* items from a page's iterator.
C10_TakesAtMostMax ==
    \A i \in DOMAIN stack : stack[i].taken <= MAX_PAGE_URLS

\* C10 amended: the collection loop takes min(n, MAX_PAGE_URLS + 1) items
\* from an iterator of n admissible links: when n > MAX_PAGE_URLS it takes
\* the item at index MAX_PAGE_URLS too, drops it, and takes none after it.
C10_TakesAtMostMaxPlusOne ==
    [][(Running("extracting") /\ Top.resp.kind = "Page")
       => LET n == Len(AdmissibleOf(Top.resp.links)) IN
          /\ MovesTo("collected")
          /\ stack'[Len(stack)].taken = Min2(n, MAX_PAGE_URLS + 1)]_vars

\* a page with MAX_PAGE_URLS + 2 admissible links: one item too many taken
C10_Witness ==
    /\ Running("collected")
    /\ Top.taken = MAX_PAGE_URLS + 1
    /\ Len(AdmissibleOf(Top.resp.links)) = MAX_PAGE_URLS + 2

(* ------------------------------- C11 ------------------------------------ *)

\* the stages of one call, each with the stage that follows it
StageOrder ==
    {<<"gate", "sleeping">>, <<"sleeping", "fetching">>,
     <<"fetching", "extracting">>, <<"extracting", "collected">>,
     <<"collected", "iterating">>, <<"iterating", "awaiting">>}

\* C11: a call goes through gate, sleep, fetch, collection, shuffle and
\* descent in this order: a frame only moves to the stage that follows its
\* own (so every fetch, at depth 0 too, follows the completed sleep of the
\* same call), and a child call is issued only by a parent that has
\* completed its fetch, its collection and its shuffle.
C11_StagesInOrder ==
    [][\A i \in 1..Len(stack') :
          IF i <= Len(stack)
          THEN \/ stack'[i].pc = stack[i].pc
               \/ <<stack[i].pc, stack'[i].pc>> \in StageOrder
          ELSE /\ stack'[i].pc = "gate"
               /\ i > 1 => /\ i = Len(stack) + 1
                           /\ stack[i - 1].pc \in {"iterating", "awaiting"}
                           /\ stack'[i - 1].pc = "awaiting"]_vars

\* a root call and its child have both slept and the child is fetching
C11_Witness ==
    /\ Len(stack) = 2
    /\ stack[1].depth = 0
    /\ stack[1].pc = "awaiting"
    /\ Top.pc = "fetching"

(* ------------------------------- C12 ------------------------------------ *)

\* the frames that are sleeping, and those that have a request in flight
Sleeping == {i \in 1..Len(stack) : stack[i].pc = "sleeping"}

Requesting == {i \in 1..Len(stack) : stack[i].pc = "fetching"}

\* C12: the active calls form one chain: the call at position i has depth
\* i - 1 and every call but the innermost awaits its child, so at most one
\* sleep and at most one request are in progress and no two siblings are
\* active at once.
C12_OneChainOfCalls ==
    /\ \A i \in 1..Len(stack) :
          /\ stack[i].depth = i - 1
          /\ i < Len(stack) => stack[i].pc = "awaiting"
    /\ Cardinality(Sleeping) <= 1
    /\ Cardinality(Requesting) <= 1
    /\ Cardinality(Sleeping \cup Requesting) <= 1

\* the second sibling of a root sleeps after the first one has returned
C12_Witness ==
    /\ Len(stack) = 2
    /\ stack[1].idx = 2
    /\ ret = "none"
    /\ Top.pc = "sleeping"

(* ------------------------------- C13 ------------------------------------ *)

\* a root pass has returned Crawl to the main loop
RootPassFailed == runState = "loop" /\ stack = <<>> /\ ret = "Crawl"

\* C13 as stated: after a root pass that failed with Crawl, the next pass
\* crawls a root other than the one that failed.
C13_NextRootDiffers ==
    [][RootPassFailed => /\ Len(stack') = 1
                         /\ stack'[1].url # root_url]_vars

\* C13 amended: after a root pass that failed with Crawl, the next pass
\* crawls a root drawn from the whole list again, at depth 0; with a single
\* configured root it is the root that just failed.
C13_NextRootDrawnFromAll ==
    [][RootPassFailed =>
          /\ Len(stack') = 1
          /\ stack'[1].depth = 0
          /\ stack'[1].pc = "gate"
          /\ \E i \in 1..Len(root_urls) : stack'[1].url = root_urls[i]
          /\ root_url' = stack'[1].url
          /\ Len(root_urls) = 1 => stack'[1].url = root_url]_vars

\* the only configured root is picked again right after its pass failed
C13_Witness ==
    /\ Len(root_urls) = 1
    /\ Len(stack) = 1
    /\ Top.pc = "gate"
    /\ Top.url = root_url
    /\ fetched

(* ------------------------------- C14 ------------------------------------ *)

\* a Duration in milliseconds, as Duration::as_millis gives it
AsMillis(d) == d.secs * 1000 + d.nanos \div 1000000

\* C14: every sleep the scheduler draws lies between the polling time's
\* min_sleep_between_requests and max_sleep_between_requests, both
\* included, and is a whole number of milliseconds.
C14_SleepWithinBounds ==
    time_state = "sleeping" =>
        /\ time.min_sleep_between_requests <= AsMillis(sleep)
        /\ AsMillis(sleep) <= time.max_sleep_between_requests
        /\ sleep.nanos % 1000000 = 0

\* the largest sleep of a proper range was drawn, a second or longer
C14_Witness ==
    /\ time_state = "sleeping"
    /\ time.min_sleep_between_requests < time.max_sleep_between_requests
    /\ AsMillis(sleep) = time.max_sleep_between_requests
    /\ sleep.secs >= 1

(* ------------------------------- C15 ------------------------------------ *)

\* C15: every polling time handed to the scheduler has
\* min_sleep_between_requests <= max_sleep_between_requests, built by
\* Time::new or by parse_polling_from_toml.
C15_MinAtMostMax ==
    time_state \in {"built", "sleeping"} =>
        time.min_sleep_between_requests <= time.max_sleep_between_requests

(* ---------------------- vocabulary of C16 .. C20 ------------------------- *)

\* the kinds supplied for bucket dim with the given permission, in the
\* order in which the configuration gives them
Supplied(dim, permission) ==
    LET given == SelectSeq(route_src,
                           LAMBDA m : m.dim = dim /\ m.permission = permission)
    IN  [i \in 1..Len(given) |-> given[i].kind]

\* some kind of the list matches the input
SomeMatches(kinds, dim, input) ==
    \E i \in DOMAIN kinds : kind_matches(dim, kinds[i], input)

\* the bucket of the route admits the input, by the contract of a bucket
Admits(dim, input) ==
    /\ SomeMatches(route[dim].acceptable, dim, input)
    /\ ~SomeMatches(route[dim].unacceptable, dim, input)

\* the buckets are constructed: by new() or as part of a Route
Constructed == route_state \in {"buckets", "built"}

\* what the Any of a dimension admits: everything, the schemes http and
\* https, or the seven supported methods, whatever the case of the letters
AnyAdmits(dim, input) ==
    CASE dim = "schemes" -> input \in {"http", "HtTP", "https"}
      [] dim = "methods" -> input \in {"get", "GET", "Post"}
      [] OTHER -> TRUE

(* ------------------------------- C16 ------------------------------------ *)

\* C16: for each of the five buckets, matches(x) answers true exactly when
\* some matcher of the acceptable list matches x and no matcher of the
\* unacceptable list does, whatever the order of the matchers.
C16_BucketContract ==
    query.op = "matches" =>
        (query.answer <=> Admits(query.dim, query.input))

\* an unacceptable matcher given before the acceptable one rejects an input
\* that both match
C16_Witness ==
    /\ query.op = "matches"
    /\ Len(route_src) = 2
    /\ route_src[1].permission = "Unacceptable"
    /\ route_src[2].permission = "Acceptable"
    /\ route_src[1].dim = query.dim
    /\ route_src[2].dim = query.dim
    /\ kind_matches(query.dim, route_src[1].kind, query.input)
    /\ kind_matches(query.dim, route_src[2].kind, query.input)
    /\ ~query.answer

(* ------------------------------- C17 ------------------------------------ *)

\* C17: after each bucket's new(), Route::new, Route::builder()...build()
\* and Route::default(), every acceptable list is non-empty: it is the one
\* Any of the dimension (AnySupported for schemes and methods) when no
\* acceptable matcher was supplied, and otherwise the supplied acceptable
\* kinds in insertion order and nothing else.
C17_AcceptableSeeded ==
    Constructed =>
        \A d \in Dims :
            /\ route[d].acceptable # <<>>
            /\ IF Supplied(d, "Acceptable") = <<>>
               THEN /\ Len(route[d].acceptable) = 1
                    /\ route[d].acceptable[1].tag =
                          (IF d \in {"schemes", "methods"} THEN "AnySupported" ELSE "Any")
               ELSE route[d].acceptable = Supplied(d, "Acceptable")
            /\ route[d].unacceptable = Supplied(d, "Unacceptable")

\* a Route with two acceptable hosts, kept in the order given, and a seeded
\* schemes bucket
C17_Witness ==
    /\ route_state = "built"
    /\ Len(Supplied("hosts", "Acceptable")) = 2
    /\ route_src[1].kind # route_src[2].kind
    /\ route["hosts"].acceptable = <<route_src[1].kind, route_src[2].kind>>
    /\ route["schemes"].acceptable = <<Unit("AnySupported")>>

(* ------------------------------- C18 ------------------------------------ *)

\* C18 as stated: a constructed bucket admits every input of its dimension
\* if and only if it was configured with an empty acceptable list.
C18_AdmitsAllIffNoAcceptable ==
    Constructed =>
        \A d \in Dims :
            (\A x \in Inputs(d) : Admits(d, x)) <=> Supplied(d, "Acceptable") = <<>>

\* C18 amended: a bucket configured with an empty acceptable list answers as
\* its seeded Any does, less the inputs an unacceptable matcher matches: it
\* admits an input exactly when the dimension's Any admits it (every host,
\* port and path; the schemes http and https; the supported methods) and no
\* supplied unacceptable matcher matches it.
C18_NoAcceptableMeansAny ==
    (query.op = "matches" /\ Supplied(query.dim, "Acceptable") = <<>>) =>
        (query.answer <=>
            /\ AnyAdmits(query.dim, query.input)
            /\ ~SomeMatches(Supplied(query.dim, "Unacceptable"), query.dim, query.input))

\* a schemes bucket configured with no matcher at all rejects ftp
C18_Witness ==
    /\ query.op = "matches"
    /\ route_src = <<>>
    /\ query.dim = "schemes"
    /\ query.input = "ftp"
    /\ ~query.answer

(* ------------------------------- C19 ------------------------------------ *)

\* the port of a URL: the explicit one, else the default of its scheme
EffectivePort(url) ==
    IF url.port # NoPort THEN url.port
    ELSE IF url.scheme = "http" THEN 80
    ELSE IF url.scheme = "https" THEN 443
    ELSE IF url.scheme = "ftp" THEN 21
    ELSE NoPort

\* C19: validate_url(u, route) is true exactly when u has a host, u has an
\* explicit or scheme-default port, and the scheme, host, port and path
\* buckets each admit the component of u; one rejecting dimension rejects.
C19_ValidateUrlIsConjunction ==
    query.op = "validate_url" =>
        (query.answer <=>
            /\ query.url.host # NoHost
            /\ EffectivePort(query.url) # NoPort
            /\ Admits("schemes", query.url.scheme)
            /\ Admits("hosts", query.url.host)
            /\ Admits("ports", EffectivePort(query.url))
            /\ Admits("paths", query.url.path))

\* a URL that only the path bucket rejects, its port being the default
C19_Witness ==
    /\ query.op = "validate_url"
    /\ query.url.host # NoHost
    /\ query.url.port = NoPort
    /\ Admits("schemes", query.url.scheme)
    /\ Admits("hosts", query.url.host)
    /\ Admits("ports", EffectivePort(query.url))
    /\ ~Admits("paths", query.url.path)
    /\ ~query.answer

(* ------------------------------- C20 ------------------------------------ *)

\* C20: a route built with no matchers admits a URL exactly when the URL has
\* a host and its scheme is http or https, whatever its port and path.
C20_DefaultRouteAdmitsHttp ==
    (query.op = "validate_url" /\ route_src = <<>>) =>
        (query.answer <=>
            /\ query.url.host # NoHost
            /\ query.url.scheme \in {"http", "https"})

\* the default route admits an https URL with no explicit port
C20_Witness ==
    /\ query.op = "validate_url"
    /\ route_src = <<>>
    /\ query.url.scheme = "https"
    /\ query.url.port = NoPort
    /\ query.url.path = <<"/", "x", "/">>
    /\ query.answer

(* ------------------------------- C21 ------------------------------------ *)

\* a non-empty path that does not end in '/'
NoTrailingSlash(path) == path # <<>> /\ path[Len(path)] # "/"

\* C21: a paths bucket answers the same for a path x that does not end in
\* '/' and for x followed by one '/', whatever its matchers (Exact, Glob,
\* Any): the trailing slash of the input is stripped before matching.
C21_TrailingSlashInsensitive ==
    (query.op = "matches" /\ query.dim = "paths" /\ NoTrailingSlash(query.input)) =>
        /\ query.answer = bucket_matches("paths", route["paths"], query.input \o <<"/">>)
        /\ \A i \in DOMAIN route["paths"].acceptable :
              kind_matches("paths", route["paths"].acceptable[i], query.input)
              = kind_matches("paths", route["paths"].acceptable[i], query.input \o <<"/">>)

\* an exact matcher /x admits /x, and /x/ as well
C21_Witness ==
    /\ query.op = "matches"
    /\ query.dim = "paths"
    /\ query.input = <<"/", "x">>
    /\ route["paths"].acceptable = <<Exact(<<"/", "x">>)>>
    /\ query.answer
    /\ bucket_matches("paths", route["paths"], <<"/", "x", "/">>)

(* ------------------------------- C23 ------------------------------------ *)

\* C23: for every ports bucket and every port p, matches_str on the decimal
\* string of p answers as matches on p does: true exactly when some
\* acceptable kind matches the number p and no unacceptable kind does.
C23_MatchesStrAgrees ==
    query.op = "matches_str" =>
        /\ query.answer = Admits("ports", query.input)
        /\ query.answer = bucket_matches("ports", route["ports"], query.input)

\* Exact(65535) admits "65535"
C23_Witness ==
    /\ query.op = "matches_str"
    /\ query.input = u16_MAX
    /\ route["ports"].acceptable = <<ExactPort(u16_MAX)>>
    /\ query.answer

(* ------------------------------- C30 ------------------------------------ *)

\* C30: an exact path matcher matches the value it was configured with: a
\* paths bucket whose only matcher is the acceptable Exact(p) admits p.
C30_ExactMatchesItself ==
    (/\ query.op = "matches"
     /\ query.dim = "paths"
     /\ route["paths"].acceptable = <<Exact(query.input)>>
     /\ route["paths"].unacceptable = <<>>) => query.answer

(* ------------------------------- C29 ------------------------------------ *)

\* the invalid matchers of a configuration: a glob with an unclosed '[', an
\* exact host that is empty or has a space, a scheme other than http and
\* https, an exact port that is no number in 0..65535
InvalidMatcher(e) ==
    \/ /\ e.key = "glob"
       /\ e.dim # "schemes"
       /\ e.value.kind = "string"
       /\ \E i \in DOMAIN e.value.s : e.value.s[i] = "["
    \/ /\ e.key = "exact"
       /\ e.dim = "hosts"
       /\ e.value.kind = "string"
       /\ e.value.s = <<>> \/ \E i \in DOMAIN e.value.s : e.value.s[i] = " "
    \/ /\ e.key = "exact"
       /\ e.dim = "schemes"
       /\ e.value.kind = "string"
       /\ e.value.s \notin {<<"h", "t", "t", "p">>, <<"h", "t", "t", "p", "s">>}
    \/ /\ e.key = "exact"
       /\ e.dim = "ports"
       /\ \/ e.value.kind = "integer" /\ (e.value.n < 0 \/ e.value.n > 65535)
          \/ e.value.kind = "string" /\ e.value.s \notin {<<"1", "0">>}

\* an integer port outside 0..65535
PortIntegerOutOfRange(e) ==
    /\ e.key = "exact"
    /\ e.dim = "ports"
    /\ e.value.kind = "integer"
    /\ e.value.n < 0 \/ e.value.n > 65535

HasInvalidMatcher == \E i \in DOMAIN route_src : InvalidMatcher(route_src[i])

\* C29 as stated: a configuration with an invalid matcher makes
\* parse_route_from_toml return an error value and no Route.
C29_InvalidMatcherIsError ==
    (route_state # "config" /\ HasInvalidMatcher) => route_state = "Err"

\* C29 amended: a configuration with an invalid matcher never gives a Route:
\* the parse returns an error value or panics, and it panics only when an
\* exact port is given as an integer outside 0..65535.
C29_InvalidMatcherGivesNoRoute ==
    /\ (route_state # "config" /\ HasInvalidMatcher) => route_state \in {"Err", "panic"}
    /\ route_state = "panic" =>
          \E i \in DOMAIN route_src : PortIntegerOutOfRange(route_src[i])
    /\ route_state = "built" =>
          \A d \in Dims : \A i \in DOMAIN route[d].acceptable :
              route[d].acceptable[i].port \in 0..65535

\* the integer port 65536 made the parse panic
C29_Witness ==
    /\ route_state = "panic"
    /\ Len(route_src) = 1
    /\ route_src[1].value.kind = "integer"
    /\ route_src[1].value.n = 65536

(* ------------------------------- C25 ------------------------------------ *)

\* the running call has collected its buffer and is in its sibling loop
InSiblingLoop == Running("iterating") \/ Running("awaiting")

\* C25: a call that has collected at least two URLs returns Ok and nothing
\* else, whatever its children return: after a child's Ok or
\* DepthLimitReached it returns Ok at once, after a child's Crawl or
\* NoUrlsFound it calls the next sibling or, with none left, returns Ok.
C25_ParentAlwaysOk ==
    [][/\ (InSiblingLoop /\ Len(stack') < Len(stack)) => Returns("Ok")
       /\ (Running("awaiting") /\ ret \in {"Ok", "DepthLimitReached"})
          => Returns("Ok")
       /\ (Running("awaiting") /\ ret \in {"Crawl", "NoUrlsFound"})
          => \/ Returns("Ok")
             \/ Len(stack') = Len(stack) + 1]_vars

\* a root call whose last child failed with Crawl has returned Ok to the
\* main loop
C25_Witness ==
    /\ runState = "loop"
    /\ stack = <<>>
    /\ pass.last = "Crawl"
    /\ ret = "Ok"

(* ------------------------------- C26 ------------------------------------ *)

\* C26: every root pass terminates: whenever calls are active, the stack
\* of calls is empty again later, whatever the pages link to, when every
\* sleep and every fetch completes.
C26_RootPassTerminates == (stack # <<>>) ~> (stack = <<>>)

\* a page links to itself: the call on URL u has called a child on u, and
\* the child has fetched the page again
C26_Witness ==
    /\ Len(stack) = 2
    /\ stack[2].url = stack[1].url
    /\ stack[1].pc = "awaiting"
    /\ HasFetched(stack[2])

(* ------------------------------- C27 ------------------------------------ *)

\* the most pages one root pass fetches under the effective cap
PassBound == IF Cap <= 1 THEN 1 ELSE 1 + MAX_PAGE_URLS * (Cap - 1)

\* the root pass has returned to the main loop
PassOver == runState = "loop" /\ stack = <<>> /\ ret # "none"

\* C27: in one root pass no two calls of one depth get past URL collection
\* into their sibling loop; the pass fetches at most
\* 1 + MAX_PAGE_URLS * (effective cap - 1) pages when the cap is at least 1,
\* and exactly one page, the root's, when the cap is 0 or 1.
C27_OneDescentPerDepth ==
    /\ ~pass.twice
    /\ pass.pages <= PassBound
    /\ (PassOver /\ Cap <= 1) => pass.pages = 1

\* under cap 2 a pass has fetched the root and all MAX_PAGE_URLS children of
\* it, the last of which descended
C27_Witness ==
    /\ Cap = 2
    /\ PassOver
    /\ pass.pages = 1 + MAX_PAGE_URLS
    /\ pass.descended = {0, 1}

(* ------------------------------- C24 ------------------------------------ *)

\* FollowRobotsExclusionProtocol::default(): the flag is set
follow_robots_exclusion_protocol == TRUE

\* the hosts whose robots.txt the scheduler has fetched: neither run nor
\* run_with_parent_url calls Crawler::crawl_robots_text, and Polling has
\* no field that could hold a table
robots_fetched == {}

\* environment: validate_robots_rules on the table that the host of the
\* first root serves, which disallows that root for the user agent
validate_robots_rules(url) == url # 1

\* C24 as stated: with the flag set, no page of a host is fetched before
\* the host's robots.txt was, and no page that the host's table disallows
\* is fetched at all.
C24_RobotsHonoured ==
    follow_robots_exclusion_protocol
    => \A i \in DOMAIN stack :
          stack[i].pc = "fetching"
          => /\ stack[i].url \in robots_fetched
             /\ validate_robots_rules(stack[i].url)

(* ------------------------------- C22 ------------------------------------ *)

\* C22: Depth::matches(d) is true exactly when d is below the effective
\* cap (max_depth when acceptable, 0 otherwise); a rule that is not
\* acceptable, and a rule with max_depth = 0, match no depth.
C22_MatchesBelowCap ==
    query.op = "depth_matches"
    => /\ query.answer <=> (query.input < Cap)
       /\ (~depth_rule.acceptable \/ depth_rule.max_depth = 0) => ~query.answer

\* a rule that is not acceptable has refused a depth below its max_depth
C22_Witness ==
    /\ query.op = "depth_matches"
    /\ ~depth_rule.acceptable
    /\ query.input < depth_rule.max_depth
    /\ ~query.answer

(* ------------------------------- C28 ------------------------------------ *)

\* C28: the child depth never overflows u16: a call in its sibling loop
\* has depth 0 or a depth below the effective cap, which is at most
\* u16::MAX, so depth + 1 is at most u16::MAX.
C28_ChildDepthFitsU16 ==
    /\ call.pc # "overflow"
    /\ call.depth <= u16_MAX
    /\ Cap <= u16_MAX
    /\ call.pc = "loop" => (call.depth = 0 \/ call.depth < Cap)
    /\ call.pc = "loop" => ChildDepth(call.depth) <= u16_MAX

\* under max_depth = u16::MAX the call at depth u16::MAX - 1 has called its
\* child at depth u16::MAX, which returned at the gate
C28_Witness ==
    /\ depth_rule = [acceptable |-> TRUE, max_depth |-> u16_MAX]
    /\ call = [depth |-> u16_MAX, pc |-> "DepthLimitReached"]

====
